---------------------------- MODULE Spec2Model ----------------------------
(***************************************************************************)
(* A model of dbusjs: the connection (src/src/transport.ts), the           *)
(* signature parser and the byte writer (src/src/serialization.ts) and the *)
(* message reader (src/src/message.ts).                                    *)
(*                                                                         *)
(* Byte buffers are sequences of numbers in 0..255.  The code's offsets    *)
(* are 0-based; a sequence is 1-based, so byte o of a buffer is buf[o+1].  *)
(***************************************************************************)
EXTENDS Integers, Sequences, FiniteSets, TLC

\* ------------------------------------------------------------------ bounds

\* sendAndReceive calls made on the connection
MaxCalls == 2
\* messages the peer puts on the incoming stream
MaxMsgs == 2
\* socket reads ("data" events) the stream is split into
MaxChunks == 3
\* a socket read hands over a multiple of ChunkUnit bytes, or all that is left
ChunkUnit == 16
\* loop iterations of onData the event log keeps
MaxEvents == 4
\* characters of a signature given to parseSignature
MaxSigLen == 4
\* characters of a marshalled string, elements of a marshalled array
MaxStrLen == 2
MaxArrayLen == 2
\* the writer starts at an offset in 0..MaxStart
MaxStart == 7
\* key=value parts of an address given to parseAddress
MaxParams == 2
\* header fields of a message given to Reader.getReplySerial
MaxFields == 3
\* characters of the longest PATH header given to a Builder
MaxPathLen == 226
\* bytes of the buffer past the starting offset
BufferRoom == 40

\* ------------------------------------------------------------ byte helpers

\* DataView.setUint32(_, v, true): the four bytes of v, least significant first
LE32(v) ==
  << v % 256, (v \div 256) % 256, (v \div 65536) % 256, (v \div 16777216) % 256 >>

\* DataView.setUint32(_, v): the four bytes of v, most significant first
BE32(v) ==
  << (v \div 16777216) % 256, (v \div 65536) % 256, (v \div 256) % 256, v % 256 >>

\* DataView.getUint32(o, true)
GetUint32LE(buf, o) ==
  buf[o + 1] + 256 * buf[o + 2] + 65536 * buf[o + 3] + 16777216 * buf[o + 4]

\* DataView.getUint32(o)
GetUint32BE(buf, o) ==
  16777216 * buf[o + 1] + 65536 * buf[o + 2] + 256 * buf[o + 3] + buf[o + 4]

\* buf with the bytes bs stored from offset o on
SetBytes(buf, o, bs) ==
  [i \in 1..Len(buf) |->
     IF i > o /\ i <= o + Len(bs) THEN bs[i - o] ELSE buf[i]]

\* Uint8Array.subarray(from, to) as a fresh sequence
Slice(buf, from, to) == SubSeq(buf, from + 1, to)

Zeros(n) == [i \in 1..n |-> 0]

\* the ASCII code of a type code
CodeByte(c) ==
  CASE c = "s" -> 115 [] c = "o" -> 111 [] c = "u" -> 117 [] c = "g" -> 103
    [] c = "y" -> 121 [] c = "i" -> 105 [] OTHER -> 63

RECURSIVE Concat(_)
\* Buffer.concat(parts)
Concat(parts) ==
  IF parts = << >> THEN << >> ELSE Head(parts) \o Concat(Tail(parts))

\* size * Math.trunc((offset + size - 1) / size)
align(offset, size) == size * ((offset + size - 1) \div size)

\* -------------------------------------------------------- 32-bit integers

MinInt32 == -2147483647 - 1

\* the JavaScript expression (1 << n) for 0 <= n <= 31: a signed 32-bit result
ShiftLeftOne(n) == IF n < 31 THEN 2 ^ n ELSE MinInt32

VARIABLES
  \* Connection
  nextCallID,        \* private nextCallID
  responseHandlers,  \* Map<number, resolve>: serial -> index of the call in calls
  receivedParts,     \* Uint8Array[]
  receiveDue,        \* bytes needed before the next message is complete
  pc,                \* "idle"; "loop" in onData's loop; "hung" once it cannot end
  data,              \* onData's local data: the buffer and the view's offset in it
  \* the socket and its users
  calls,             \* the promises sendAndReceive returned, each with the
                     \* number of stream bytes read when the call was made
  sent,              \* payloads written to the socket
  stream,            \* all bytes the peer sends, and the messages they are
  msgs,
  fed,               \* bytes of stream handed to onData so far
  chunks,            \* socket reads so far
  \* history of onData
  events,            \* one record per loop iteration that recognised a message
  viewAt,            \* stream offset of the first byte of data's buffer
  stashAt,           \* stream offset of the first stashed byte
  threw,             \* an onData call ended with a RangeError
  closed,            \* close() was called: the socket was ended
  expired            \* the calls whose caller's deadline has passed

connVars ==
  << nextCallID, responseHandlers, receivedParts, receiveDue, pc, data, calls,
     sent, stream, msgs, fed, chunks, events, viewAt, stashAt, threw, closed,
     expired >>

VARIABLES
  \* parseSignature
  signature,         \* the argument: a sequence of one-character strings
  parsed             \* what the call returned or threw, once it was made

sigVars == << signature, parsed >>

VARIABLES
  \* marshalling and reading back
  codec,             \* the serializer (or header field) in use
  value,             \* the value given to it
  start,             \* the offset the writer and the reader start at
  writer,            \* the Writer: buffer, offset, exception; and the scalars
                     \* it has stored: offset, width
  reader,            \* the Reader: buffer, offset, exception
  got,               \* what the reader returned
  phase              \* "init", then "written", then "read"

marshalVars == << codec, value, start, writer, reader, got, phase >>

VARIABLES
  \* building a message
  headers,           \* the headers set on the Builder, in the order of their ids
  bodyArgs,          \* the serializer and values given to build, if any
  message            \* what build returned

buildVars == << headers, bodyArgs, message >>

VARIABLES
  \* Connection.open
  opening,           \* the promise of open: "connecting", "resolved",
                     \* "rejected"; "crashed" when the connect handler threw
  uid,               \* process.getuid(), NoUid where there is no getuid
  written,           \* what open wrote to the socket, in order, each with the
                     \* count of server lines received when it was written
  replies            \* the lines the server has sent in reply, in order

openVars == << opening, uid, written, replies >>

VARIABLES
  \* parseAddress
  address,           \* the argument: the sequence of the pieces of the string,
                     \* its delimiters ":", "=", "," and the words between them
  addrIndex,         \* the local index (counted in pieces, from 0)
  params,            \* the local params: property name -> value
  addrState          \* "idle", "loop" in the while loop, "switch" after it,
                     \* "returned", "threw", "hung" once the loop cannot end

addrVars == << address, addrIndex, params, addrState >>

VARIABLES
  \* Reader.getReplySerial
  wireFields,        \* the header fields of the message the Reader is made of
  replySerial        \* what getReplySerial returned or threw, once called

lookupVars == << wireFields, replySerial >>

vars ==
  << connVars, sigVars, marshalVars, buildVars, openVars, addrVars,
     lookupVars >>

\* what an action of one part of the library leaves alone
notConn ==
  << sigVars, marshalVars, buildVars, openVars, addrVars, lookupVars >>
notSig ==
  << connVars, marshalVars, buildVars, openVars, addrVars, lookupVars >>
notMarshal ==
  << connVars, sigVars, buildVars, openVars, addrVars, lookupVars >>
notBuild ==
  << connVars, sigVars, marshalVars, openVars, addrVars, lookupVars >>
notOpen ==
  << sigVars, marshalVars, buildVars, addrVars, lookupVars >>
notAddr ==
  << connVars, sigVars, marshalVars, buildVars, openVars, lookupVars >>
notLookup ==
  << connVars, sigVars, marshalVars, buildVars, openVars, addrVars >>

\* --------------------------------------------------------------- the peer

\* The serials the peer stamps on its own messages, and the REPLY_SERIAL values
\* it quotes (1 is the serial of a call of this connection).
PeerSerials == {1, 2}
ReplySerials == {1, 2}

\* A method return as the bus puts it on the wire: the 16-byte fixed header
\* (endianness 'l', kind 2, flags, version 1, body length, serial, length of the
\* header fields), the REPLY_SERIAL field (5, "u", value) and, with a body, the
\* SIGNATURE field (8, "g", "u"), the pad to 8 and one uint32.
PeerMessage(serial, reply, body) ==
  LET fields == << 5, 1, 117, 0 >> \o LE32(reply)
                  \o (IF body = << >> THEN << >>
                      ELSE << 8, 1, 103, 0, 1, 117, 0 >>)
      raw == << 108, 2, 0, 1 >> \o LE32(Len(body)) \o LE32(serial)
               \o LE32(Len(fields)) \o fields
  IN  raw \o Zeros(align(Len(raw), 8) - Len(raw)) \o body

PeerBodies == { << >>, << 7, 0, 0, 0 >> }

PeerMessages ==
  { [serial |-> s, reply |-> r, bytes |-> PeerMessage(s, r, b)] :
      s \in PeerSerials, r \in ReplySerials, b \in PeerBodies }

RECURSIVE StreamOf(_)
StreamOf(ms) ==
  IF ms = << >> THEN << >> ELSE Head(ms).bytes \o StreamOf(Tail(ms))

\* What makes a message malformed: 1 an endianness byte that is neither 'l'
\* nor 'B', 2 a kind above 4, 3 a version other than 1, 4 a body length past
\* the largest message (2^27 bytes), 5 a header field of an unknown type.
Corrupt(bytes, how) ==
  CASE how = 1 -> SetBytes(bytes, 0, << 120 >>)
    [] how = 2 -> SetBytes(bytes, 1, << 5 >>)
    [] how = 3 -> SetBytes(bytes, 3, << 2 >>)
    [] how = 4 -> SetBytes(bytes, 4, << 0, 0, 0, 16 >>)
    [] OTHER -> SetBytes(bytes, 18, << 63 >>)

Malformed(bytes) ==
  \/ bytes[1] \notin {108, 66}
  \/ bytes[2] > 4
  \/ bytes[4] # 1
  \/ GetUint32LE(bytes, 4) > 2 ^ 27
  \/ bytes[19] \notin {115, 111, 117, 103}

\* replies to serial 1, each malformed in one way
MalformedMessages ==
  { [serial |-> 1, reply |-> 1, bytes |-> Corrupt(PeerMessage(1, 1, b), how)] :
      b \in PeerBodies, how \in 1..5 }

\* stream offset at which message k of ms starts
StartOf(ms, k) == Len(StreamOf(SubSeq(ms, 1, k - 1)))

\* the payload sendAndReceive is given: the fixed header of a method call
CallPayload == << 108, 1, 0, 1 >> \o LE32(0) \o LE32(0) \o LE32(0)

\* ------------------------------------------------------------- Connection

\* NextCallID with the counter reset to 0 instead of 1
NextCallID_ResetToZero(callID) ==
  IF callID > ShiftLeftOne(31) THEN 0 ELSE callID + 2

\* callID > (1 << 31) ? 1 : callID + 2
NextCallID(callID) == IF callID > ShiftLeftOne(31) THEN 1 ELSE callID + 2

\* view.setUint32(8, callID)
StampSerial(payload, callID) == SetBytes(payload, 8, BE32(callID))

\* Map.set(key, value)
MapSet(map, key, handler) ==
  [k \in DOMAIN map \cup {key} |-> IF k = key THEN handler ELSE map[k]]

\* Map.delete(key)
MapDelete(map, key) == [k \in DOMAIN map \ {key} |-> map[k]]

EmptyMap == [k \in {} |-> 0]

AppendCapped(log, e) == IF Len(log) < MaxEvents THEN Append(log, e) ELSE log

\* handler(data.subarray(8)): the promise of call c resolves with the payload
Resolve(cs, c, payload) ==
  [cs EXCEPT ![c] = IF @.resolved THEN @
                    ELSE [@ EXCEPT !.resolved = TRUE, !.value = payload]]

NoData == [buf |-> << >>, off |-> 0]

\* Connection.onData(chunk) up to its do-while loop: with bytes due the chunk
\* joins receivedParts and the call returns, or the parts are concatenated;
\* then the loop starts on data.
OnData(chunk) ==
  LET pushed == receiveDue # 0
      parts1 == IF pushed THEN Append(receivedParts, chunk) ELSE receivedParts
  IN
  /\ receivedParts' = parts1
  /\ IF pushed /\ receiveDue > Len(chunk)
     THEN /\ receiveDue' = receiveDue - Len(chunk)
          /\ UNCHANGED << pc, data, viewAt >>
     ELSE /\ receiveDue' = 0
          /\ pc' = "loop"
          /\ data' = [buf |-> IF pushed THEN Concat(parts1) ELSE chunk,
                      off |-> 0]
          /\ viewAt' = IF pushed THEN stashAt ELSE fed
  /\ UNCHANGED << responseHandlers, calls, events, stashAt, threw, closed,
                  expired >>

\* One iteration of onData's do-while loop over data = buf.subarray(off).  The
\* DataView is made of data.buffer, so its reads are at offsets of buf, and
\* they throw a RangeError past buf's end.  An iteration with messageLength 0
\* leaves data as it was and the loop repeats it for ever: pc becomes "hung".
LoopStep ==
  /\ pc = "loop"
  /\ LET buf == data.buf
         off == data.off
         byteLength == Len(buf) - off
         return == /\ pc' = "idle"
                   /\ data' = NoData
     IN
     IF Len(buf) < 8
     THEN /\ return
          /\ threw' = TRUE
          /\ UNCHANGED << responseHandlers, receivedParts, receiveDue, calls,
                          events, stashAt >>
     ELSE
     LET messageLength == GetUint32LE(buf, 4) IN
     IF messageLength > byteLength
     THEN /\ return
          /\ receiveDue' = messageLength - byteLength
          /\ receivedParts' = << Slice(buf, off, Len(buf)) >>
          /\ stashAt' = viewAt + off
          /\ UNCHANGED << responseHandlers, calls, events, threw >>
     ELSE IF Len(buf) < 12
     THEN /\ return
          /\ threw' = TRUE
          /\ UNCHANGED << responseHandlers, receivedParts, receiveDue, calls,
                          events, stashAt >>
     ELSE
     LET messageID == GetUint32LE(buf, 8)
         found == messageID \in DOMAIN responseHandlers
         handlers1 == IF found THEN MapDelete(responseHandlers, messageID)
                      ELSE responseHandlers
         event == [at |-> viewAt + off,
                   bytes |-> Slice(buf, off, off + messageLength),
                   have |-> fed,
                   pending |-> DOMAIN responseHandlers,
                   key |-> IF found THEN messageID ELSE 0,
                   call |-> IF found THEN responseHandlers[messageID] ELSE 0,
                   removed |-> found /\ messageID \notin DOMAIN handlers1]
     IN /\ responseHandlers' = handlers1
        /\ calls' = IF found
                    THEN Resolve(calls, responseHandlers[messageID],
                                 Slice(buf, off + 8, Len(buf)))
                    ELSE calls
        /\ events' = AppendCapped(events, event)
        /\ IF messageLength = 0
           THEN pc' = "hung" /\ data' = data
           ELSE IF byteLength - messageLength = 0
                THEN return
                ELSE pc' = pc /\ data' = [data EXCEPT !.off = off + messageLength]
        /\ UNCHANGED << receivedParts, receiveDue, stashAt, threw >>
  /\ UNCHANGED << nextCallID, sent, stream, msgs, fed, chunks, viewAt, closed,
                  expired >>
  /\ UNCHANGED notConn

\* the lengths a socket read may have when left bytes are still to come
ChunkLens(left) == { n \in 1..left : n % ChunkUnit = 0 \/ n = left }

\* The socket emits "data" with the next n bytes of the stream.
Deliver(n) ==
  /\ pc = "idle"
  /\ chunks + 1 < MaxChunks \/ n = Len(stream) - fed
  /\ fed' = fed + n
  /\ OnData(Slice(stream, fed, fed + n))
  /\ chunks' = chunks + 1
  /\ UNCHANGED << nextCallID, sent, stream, msgs >>
  /\ UNCHANGED notConn

\* The executor of the promise with the socket written to first and the
\* waiter registered after
Executor_WriteFirst(handlers, callID, call) ==
  [handlers |-> MapSet(handlers, callID, call),
   pendingAtWrite |-> DOMAIN handlers]

\* The executor of the promise sendAndReceive returns, which runs at once:
\* this.responseHandlers.set(callID, resolve), then this.socket.write(payload).
\* handlers is the table it leaves, pendingAtWrite the serials that had a
\* waiter when socket.write was called.
Executor(handlers, callID, call) ==
  LET registered == MapSet(handlers, callID, call)
  IN [handlers |-> registered, pendingAtWrite |-> DOMAIN registered]

\* Connection.sendAndReceive(payload); socket.write puts nothing on the wire
\* once the socket was ended.  The promise is made with a resolve function
\* only, so its error stays "".
SendAndReceive(payload) ==
  /\ pc = "idle"
  /\ Len(calls) < MaxCalls
  /\ LET callID == nextCallID
         run == Executor(responseHandlers, callID, Len(calls) + 1)
     IN /\ nextCallID' = NextCallID(callID)
        /\ responseHandlers' = run.handlers
        /\ calls' = Append(calls, [serial |-> callID, resolved |-> FALSE,
                                   value |-> << >>, error |-> "",
                                   sentAt |-> fed,
                                   pendingAtWrite |-> run.pendingAtWrite])
        /\ sent' = IF closed THEN sent
                   ELSE Append(sent, StampSerial(payload, callID))
  /\ UNCHANGED << receivedParts, receiveDue, pc, data, stream, msgs, fed,
                  chunks, events, viewAt, stashAt, threw, closed, expired >>
  /\ UNCHANGED notConn

\* Connection.close(): socket.end()
Close ==
  /\ pc = "idle"
  /\ ~closed
  /\ closed' = TRUE
  /\ UNCHANGED << nextCallID, responseHandlers, receivedParts, receiveDue, pc,
                  data, calls, sent, stream, msgs, fed, chunks, events, viewAt,
                  stashAt, threw, expired >>
  /\ UNCHANGED notConn

\* The deadline of the caller of call i passes while the call is pending.
\* sendAndReceive takes no deadline and arms no timer ("TODO: Implement
\* timeouts"), so nothing of the connection changes.
DeadlinePasses(i) ==
  /\ pc = "idle"
  /\ i \notin expired
  /\ ~calls[i].resolved
  /\ expired' = expired \cup {i}
  /\ UNCHANGED << nextCallID, responseHandlers, receivedParts, receiveDue, pc,
                  data, calls, sent, stream, msgs, fed, chunks, events, viewAt,
                  stashAt, threw, closed >>
  /\ UNCHANGED notConn

\* -------------------------------------------------------- Connection.open

\* the lines a server sends during authentication
ServerLines == {"OK 1234deadbeef\r\n", "REJECTED EXTERNAL\r\n", "ERROR\r\n"}

\* the ASCII bytes of a server line
LineBytes(line) ==
  CASE line = "OK 1234deadbeef\r\n" ->
         << 79, 75, 32, 49, 50, 51, 52, 100, 101, 97, 100, 98, 101, 101, 102,
            13, 10 >>
    [] line = "REJECTED EXTERNAL\r\n" ->
         << 82, 69, 74, 69, 67, 84, 69, 68, 32, 69, 88, 84, 69, 82, 78, 65, 76,
            13, 10 >>
    [] OTHER -> << 69, 82, 82, 79, 82, 13, 10 >>

\* socket.write(new Uint8Array(1))
ZeroByte == [kind |-> "binary", data |-> "00"]

\* process.getuid is undefined
NoUid == -1

\* the user ids of the process
Uids == {NoUid, 0, 1000}

\* Buffer.from(uid.toString(), "ascii").toString("hex")
UidHex(id) == IF id = 0 THEN "30" ELSE "31303030"

RECURSIVE TryAuth(_, _)
\* Connection.tryAuth(socket, methods) past the line that makes id: the lines
\* written, one per method, one after the other; an unsupported method throws
\* and ends them
TryAuth(id, methods) ==
  IF methods = << >> THEN << >>
  ELSE IF Head(methods) = "EXTERNAL"
  THEN << [kind |-> "text", data |-> "AUTH EXTERNAL " \o UidHex(id) \o "\r\n"] >>
       \o TryAuth(id, Tail(methods))
  ELSE IF Head(methods) = "ANONYMOUS"
  THEN << [kind |-> "text", data |-> "AUTH ANONYMOUS \r\n"] >>
       \o TryAuth(id, Tail(methods))
  ELSE << >>

\* the writes of the connect handler that put the AUTH lines before the zero
\* byte
ConnectWrites_AuthFirst(id) ==
  (IF id # NoUid THEN TryAuth(id, << "EXTERNAL", "ANONYMOUS" >>) ELSE << >>)
  \o << ZeroByte >>

\* the writes of the connect handler of Connection.open: the zero byte, then
\* tryAuth, which throws at uid!.toString() before it writes when
\* process.getuid does not exist
ConnectWrites(id) ==
  << ZeroByte >>
  \o (IF id # NoUid THEN TryAuth(id, << "EXTERNAL", "ANONYMOUS" >>) ELSE << >>)

\* The socket's "connect" event of Connection.open: the writes, then the
\* Connection is made and the promise resolved.
Connect ==
  /\ opening = "connecting"
  /\ written' = [i \in 1..Len(ConnectWrites(uid)) |->
                  [write |-> ConnectWrites(uid)[i], seen |-> Len(replies)]]
  /\ opening' = IF uid # NoUid THEN "resolved" ELSE "crashed"
  /\ UNCHANGED << uid, replies, connVars, notOpen >>

\* The socket's "error" event before it connected: reject
ConnectError ==
  /\ opening = "connecting"
  /\ opening' = "rejected"
  /\ UNCHANGED << uid, written, replies, connVars, notOpen >>

\* The server answers an AUTH line.  The bytes come as a "data" event, and the
\* listener of that event is the new Connection's onData.
ServerReply(line) ==
  /\ opening = "resolved"
  /\ pc = "idle"
  /\ Len(replies) < Len(written) - 1
  /\ replies' = Append(replies, line)
  /\ OnData(LineBytes(line))
  /\ UNCHANGED << nextCallID, sent, stream, msgs, fed, chunks >>
  /\ UNCHANGED << opening, uid, written, notOpen >>

\* sendAndReceive on the Connection that open resolved with
Call ==
  /\ opening = "resolved"
  /\ SendAndReceive(CallPayload)

\* close() on the Connection that open resolved with
CloseOpened ==
  /\ opening = "resolved"
  /\ Close

\* -------------------------------------------------------- parseSignature

\* Serializers.  The parser hands out the shared instances of the primitive,
\* string, signature and pass-through serializers, and StructSerializers made
\* of a builder's elements array: ref names the builder whose array the
\* struct's fields are (the array is shared, not copied).
PrimitiveCodes == {"y", "b", "n", "i", "x", "q", "u", "t", "d"}

PrimitiveInstance(code) == [t |-> "prim", code |-> code, ref |-> 0]
StringInstance == [t |-> "string", code |-> "", ref |-> 0]
SignatureInstance == [t |-> "signature", code |-> "", ref |-> 0]
PassthroughInstance == [t |-> "passthrough", code |-> "", ref |-> 0]
StructOver(ref) == [t |-> "struct", code |-> "", ref |-> ref]

\* A SerializerBuilder: heap holds every CompositeSerializerBuilder made so
\* far (its kind and its elements array), incomplete and current name them by
\* their index in heap; current = 0 is undefined.  error is the exception
\* thrown, "" when none.
NewBuilder ==
  [heap |-> << [kind |-> "(", elements |-> << >>] >>,
   incomplete |-> << 1 >>, current |-> 1, error |-> ""]

Throw(b, error) == [b EXCEPT !.error = error]

\* this.current.elements.push(serializer)
Push(b, serializer) ==
  IF b.current = 0 THEN Throw(b, "TypeError")
  ELSE [b EXCEPT !.heap[b.current].elements = Append(@, serializer)]

\* SerializerBuilder.beginComposite(kind)
BeginComposite(b, kind) ==
  [b EXCEPT !.heap = Append(@, [kind |-> kind, elements |-> << >>]),
            !.current = Len(b.heap) + 1,
            !.incomplete = Append(@, Len(b.heap) + 1)]

RECURSIVE EndLoop_NoEmptyCheck(_)
\* the loop of endComposite over a CompositeSerializerBuilder.build that
\* makes the StructSerializer without looking at elements.length
EndLoop_NoEmptyCheck(b) ==
  LET s == StructOver(b.current)
      n == Len(b.incomplete)
      popped == IF n = 0 THEN 0 ELSE b.incomplete[n]
      b1 == [b EXCEPT !.current = popped,
                      !.incomplete = IF n = 0 THEN << >> ELSE SubSeq(@, 1, n - 1)]
      b2 == Push(b1, s)
  IN IF b2.error # "" THEN b2
     ELSE IF b2.heap[b2.current].kind = "a" THEN EndLoop_NoEmptyCheck(b2)
     ELSE b2

RECURSIVE EndLoop(_)
\* the do-while loop of endComposite: build the current composite, pop
\* incomplete into current, push the built serializer on current's elements,
\* and again while current is an array
EndLoop(b) ==
  IF Len(b.heap[b.current].elements) < 1 THEN Throw(b, "Empty composite type")
  ELSE
    LET s == StructOver(b.current)
        n == Len(b.incomplete)
        popped == IF n = 0 THEN 0 ELSE b.incomplete[n]
        b1 == [b EXCEPT !.current = popped,
                        !.incomplete = IF n = 0 THEN << >> ELSE SubSeq(@, 1, n - 1)]
        b2 == Push(b1, s)
    IN IF b2.error # "" THEN b2
       ELSE IF b2.heap[b2.current].kind = "a" THEN EndLoop(b2)
       ELSE b2

\* SerializerBuilder.endComposite(kind, signature)
EndComposite(b, kind) ==
  IF b.heap[b.current].kind # kind THEN Throw(b, "Composite type mismatch")
  ELSE EndLoop(b)

\* the switch of parseSignature on one token
Token(b, token) ==
  CASE token \in {"a", "{", "("} -> BeginComposite(b, token)
    [] token = "}" -> EndComposite(b, "{")
    [] token = ")" -> EndComposite(b, "(")
    [] token \in {"o", "s"} -> Push(b, StringInstance)
    [] token = "g" -> Push(b, SignatureInstance)
    [] token = "v" -> Push(b, PassthroughInstance)
    [] OTHER -> IF token \in PrimitiveCodes
                THEN Push(b, PrimitiveInstance(token))
                ELSE Throw(b, "Unrecognized token")

RECURSIVE Tokens(_, _, _)
\* the while loop of parseSignature from index on (index is 1-based here)
Tokens(b, sig, index) ==
  IF b.error # "" \/ index > Len(sig) THEN b
  ELSE Tokens(Token(b, sig[index]), sig, index + 1)

\* SerializerBuilder.build(signature)
BuilderBuild(b) ==
  IF Len(b.incomplete) > 1 THEN Throw(b, "Incomplete DBus signature")
  ELSE IF Len(b.heap[b.current].elements) < 1
       THEN Throw(b, "Empty composite type")
       ELSE b

\* parseSignature(signature): the error thrown, or the StructSerializer
\* returned, whose fields are the elements array of builder root of heap
ParseSignature(sig) ==
  LET b == Tokens(NewBuilder, sig, 1)
      r == IF b.error # "" THEN b ELSE BuilderBuild(b)
  IN [ok |-> r.error = "", error |-> r.error, heap |-> r.heap,
      root |-> IF r.error = "" THEN r.current ELSE 0]

NotParsed == [ok |-> FALSE, error |-> "not called", heap |-> << >>, root |-> 0]

\* the characters of the signatures given to the parser: type codes, brackets
\* and "z", which is no type code
SigAlphabet == {"y", "u", "s", "o", "g", "a", "(", ")", "{", "}", "z"}

\* The signature attribute of a serializer, by the codec contracts: a
\* primitive's is its type code, a struct's is its fields' in parentheses.
\* fuel bounds the descent; a struct below it reads "?".
RECURSIVE SignatureOf(_, _, _)
RECURSIVE SignatureOfList(_, _, _)
SignatureOf(heap, ser, fuel) ==
  CASE ser.t = "prim" -> << ser.code >>
    [] ser.t = "string" -> << "s" >>
    [] ser.t = "signature" -> << "g" >>
    [] ser.t = "passthrough" -> << "v" >>
    [] OTHER -> IF fuel = 0 THEN << "?" >>
                ELSE << "(" >>
                     \o SignatureOfList(heap, heap[ser.ref].elements, fuel - 1)
                     \o << ")" >>

SignatureOfList(heap, sers, fuel) ==
  IF sers = << >> THEN << >>
  ELSE SignatureOf(heap, Head(sers), fuel)
       \o SignatureOfList(heap, Tail(sers), fuel)

\* the concatenated signature of the codec list parseSignature returned
ParsedSignature(r) ==
  SignatureOfList(r.heap, r.heap[r.root].elements, MaxSigLen)

\* The signatures of the supported types: one or more complete types, a
\* complete type being a basic type code, "a" and a complete type, or one or
\* more complete types in parentheses.  TypeEnd is the index after the
\* complete type that starts at index i, 0 when none does.
BasicCodes == PrimitiveCodes \cup {"s", "o", "g"}

RECURSIVE TypeEnd(_, _)
RECURSIVE StructEnd(_, _, _)
TypeEnd(sig, i) ==
  IF i > Len(sig) THEN 0
  ELSE CASE sig[i] \in BasicCodes -> i + 1
         [] sig[i] = "a" -> TypeEnd(sig, i + 1)
         [] sig[i] = "(" -> StructEnd(sig, i + 1, 0)
         [] OTHER -> 0

StructEnd(sig, i, n) ==
  IF i > Len(sig) THEN 0
  ELSE IF sig[i] = ")" THEN (IF n >= 1 THEN i + 1 ELSE 0)
  ELSE LET e == TypeEnd(sig, i)
       IN IF e = 0 THEN 0 ELSE StructEnd(sig, e, n + 1)

RECURSIVE TypesFrom(_, _)
TypesFrom(sig, i) ==
  IF i > Len(sig) THEN TRUE
  ELSE LET e == TypeEnd(sig, i)
       IN IF e = 0 THEN FALSE ELSE TypesFrom(sig, e)

WellFormed(sig) == sig # << >> /\ TypesFrom(sig, 1)

\* a call parseSignature(signature)
Parse ==
  /\ parsed = NotParsed
  /\ parsed' = ParseSignature(signature)
  /\ UNCHANGED << signature, notSig >>

\* ----------------------------------------------------------------- Writer

RECURSIVE LEBytes(_, _)
\* the n low bytes of the integer v, least significant first (two's
\* complement for a negative v)
LEBytes(v, n) ==
  IF n = 0 THEN << >> ELSE << v % 256 >> \o LEBytes(v \div 256, n - 1)

\* new Writer(buffer), moved to offset at
NewWriter(size, at) ==
  [buf |-> Zeros(size), offset |-> at, threw |-> FALSE, stored |-> << >>]

\* a RangeError of DataView or of the Uint8Array constructor
WriterThrow(w) == [w EXCEPT !.threw = TRUE]

\* DataView.setUintN(at, ...) and its signed and float kin: the bytes of one
\* scalar stored at offset at
Store(w, at, bytes) ==
  IF w.threw THEN w
  ELSE IF at < 0 \/ at + Len(bytes) > Len(w.buf) THEN WriterThrow(w)
  ELSE [w EXCEPT !.buf = SetBytes(@, at, bytes),
                 !.stored = Append(@, [at |-> at, width |-> Len(bytes)])]

Advance(w, n) == IF w.threw THEN w ELSE [w EXCEPT !.offset = @ + n]

\* Pad that leaves the offset where it is
Pad_None(w, length) == w

\* Writer.pad(length)
Pad(w, length) ==
  IF w.threw THEN w
  ELSE LET n == length - (w.offset % length)
       IN IF w.offset + n > Len(w.buf) THEN WriterThrow(w)
          ELSE Advance(w, n)

RECURSIVE Utf8(_, _, _)
\* the UTF-8 bytes of the characters from + 1 .. to of a string, the two
\* halves encoded one after the other
Utf8(chars, from, to) ==
  IF to <= from THEN << >>
  ELSE IF to = from + 1 THEN chars[to]
  ELSE LET mid == (from + to) \div 2
       IN Utf8(chars, from, mid) \o Utf8(chars, mid, to)

\* TextEncoder.encodeInto(value, view of room bytes): the UTF-8 bytes of the
\* leading characters of value that fit.  A string is the sequence of its
\* characters, a character the sequence of its UTF-8 bytes.
EncodeInto(chars, room) ==
  LET fits == { k \in 0..Len(chars) : Len(Utf8(chars, 0, k)) <= room }
      read == CHOOSE k \in fits : \A j \in fits : j <= k
  IN Utf8(chars, 0, read)

\* Writer.encodeString(value): value.length bytes at the current offset take
\* the encoding; the offset stays
EncodeString(w, chars) ==
  IF w.threw THEN w
  ELSE IF w.offset + Len(chars) > Len(w.buf) THEN WriterThrow(w)
  ELSE [w EXCEPT !.buf = SetBytes(@, w.offset, EncodeInto(chars, Len(chars)))]

\* Writer.writeString(value)
WriteString(w, chars) ==
  LET w1 == Pad(w, 4)
      w2 == Store(w1, w1.offset, LE32(Len(chars)))
      w3 == Advance(EncodeString(w2, chars), 5 + Len(chars))
  IN Store(w3, w3.offset - 1, << 0 >>)

\* Writer.writeSignature(value)
WriteSignature(w, chars) ==
  LET w1 == Store(w, w.offset, << Len(chars) % 256 >>)
      w2 == Advance(EncodeString(w1, chars), 2 + Len(chars))
  IN Store(w2, w2.offset - 1, << 0 >>)

\* Writer.writeByte(value)
WriteByte(w, v) == Advance(Store(w, w.offset, LEBytes(v, 1)), 1)

\* the writeIntN, writeUIntN of Writer: pad to the width, store, advance
WriteScalar(w, bytes) ==
  LET w1 == Pad(w, Len(bytes))
  IN Advance(Store(w1, w1.offset, bytes), Len(bytes))

\* Writer.writeBool(value); the value is 1 for true and 0 for false
WriteBool(w, v) == WriteScalar(w, LE32(IF v # 0 THEN 1 ELSE 0))

\* Writer.writeDouble(value), for the values 0 and 1
WriteDouble(w, v) ==
  WriteScalar(w, IF v = 0 THEN Zeros(8) ELSE << 0, 0, 0, 0, 0, 0, 240, 63 >>)

\* Writer.deferUInt32(): the writer past the reserved slot; the slot is at its
\* offset - 4
DeferUInt32(w) == Advance(Pad(w, 4), 4)

\* Writer.append(value)
WriterAppend(w, bytes) ==
  IF w.threw THEN w
  ELSE IF w.offset + Len(bytes) > Len(w.buf) THEN WriterThrow(w)
  ELSE Advance([w EXCEPT !.buf = SetBytes(@, w.offset, bytes)], Len(bytes))

\* ------------------------------------------------------------ serializers

\* PrimitiveSerializer.serializeInto: the Writer method of PrimitiveSerializer
\* .instances[code]
SerializePrimitive(code, w, v) ==
  CASE code = "y" -> WriteByte(w, v)
    [] code = "b" -> WriteBool(w, v)
    [] code \in {"n", "q"} -> WriteScalar(w, LEBytes(v, 2))
    [] code \in {"i", "u"} -> WriteScalar(w, LEBytes(v, 4))
    [] code \in {"x", "t"} -> WriteScalar(w, LEBytes(v, 8))
    [] code = "d" -> WriteDouble(w, v)

ArrayOver(ref) == [t |-> "array", code |-> "", ref |-> ref]

RECURSIVE SerializeInto(_, _, _, _)
RECURSIVE SerializeFields(_, _, _, _, _)
RECURSIVE SerializeElements(_, _, _, _, _)
\* Serializer.serializeInto(writer, value); heap[ser.ref].elements are the
\* fields of a struct or array serializer
SerializeInto(heap, ser, w, v) ==
  CASE ser.t = "prim" -> SerializePrimitive(ser.code, w, v)
    [] ser.t = "string" -> WriteString(w, v)
    [] ser.t = "signature" -> WriteSignature(w, v)
    [] ser.t = "passthrough" -> WriterAppend(w, v)
    [] ser.t = "struct" ->
         SerializeFields(heap, heap[ser.ref].elements, w, v, 1)
    [] ser.t = "array" ->
         LET startingPosition == w.offset
             w1 == DeferUInt32(w)
             position == w1.offset - 4
             w2 == SerializeElements(heap, heap[ser.ref].elements, w1, v, 1)
         IN Store(w2, position, LE32(w2.offset - startingPosition - 4))

\* StructSerializer.serializeInto: field n of fields on values[n], n on
SerializeFields(heap, fields, w, values, n) ==
  IF n > Len(fields) THEN w
  ELSE SerializeFields(heap, fields,
                       SerializeInto(heap, fields[n], w, values[n]),
                       values, n + 1)

\* ArraySerializer.serializeInto's loop: super.serializeInto on values[n]
SerializeElements(heap, fields, w, values, n) ==
  IF n > Len(values) THEN w
  ELSE SerializeElements(heap, fields,
                         SerializeFields(heap, fields, w, values[n], 1),
                         values, n + 1)

\* Builder.writeHeader(id, type, value) without its buffer growth: pad(8), the
\* id, the type as a signature, the value by the serializer ser of its type
WriteHeader(heap, w, id, type, ser, v) ==
  LET w1 == WriteByte(Pad(w, 8), id)
      w2 == WriteSignature(w1, << << CodeByte(type) >> >>)
  IN SerializeInto(heap, ser, w2, v)

\* ----------------------------------------------------------------- Reader

NewReader(buf, at) == [buf |-> buf, offset |-> at, threw |-> FALSE]

NothingRead == [bytes |-> << >>, id |-> 0, type |-> << >>]

\* Reader.align(size)
ReaderAlign(r, size) == [r EXCEPT !.offset = align(@, size)]

\* Reader.readUint8/16/32/64: the n bytes at the offset, which then moves past
\* them; a RangeError when they pass the end.  The result is the pair of the
\* reader and the bytes read, least significant first.
ReadUint(r, n) ==
  IF r.threw \/ r.offset + n > Len(r.buf)
  THEN << [r EXCEPT !.threw = TRUE], << >> >>
  ELSE << [r EXCEPT !.offset = @ + n], Slice(r.buf, r.offset, r.offset + n) >>

\* the number a length field of up to 4 bytes holds; one of 2^31 or more
\* is past every buffer and reads as the largest number there is
LengthOf(bytes) ==
  IF Len(bytes) = 4 /\ bytes[4] >= 128 THEN 2147483647
  ELSE IF Len(bytes) = 4 THEN GetUint32LE(bytes, 0)
  ELSE IF Len(bytes) = 1 THEN bytes[1] ELSE 0

\* Reader.decodeString(length): the bytes decoded; the offset stays
DecodeString(r, length) ==
  IF r.threw \/ r.offset + length > Len(r.buf)
  THEN << [r EXCEPT !.threw = TRUE], << >> >>
  ELSE << r, Slice(r.buf, r.offset, r.offset + length) >>

\* Reader.readString()
ReadString(r) ==
  LET len == ReadUint(r, 4) IN DecodeString(len[1], LengthOf(len[2]))

\* Reader.readSignature()
ReadSignature(r) ==
  LET len == ReadUint(r, 1) IN DecodeString(len[1], LengthOf(len[2]))

\* Reader.readHeaderField(): the reader, and the id, type and value read
ReadHeaderField(r) ==
  LET r1 == ReaderAlign(r, 8)
      id == ReadUint(r1, 1)
      type == ReadSignature(id[1])
      val == CASE type[2] \in { << CodeByte("s") >>, << CodeByte("o") >> } ->
                    ReadString(type[1])
               [] type[2] = << CodeByte("u") >> -> ReadUint(type[1], 4)
               [] type[2] = << CodeByte("g") >> -> ReadSignature(type[1])
               [] OTHER -> << [type[1] EXCEPT !.threw = TRUE], << >> >>
  IN << val[1],
        [bytes |-> val[2], id |-> LengthOf(id[2]), type |-> type[2]] >>

\* Reading back a value of serializer ser with the Reader's methods, after
\* Reader.align to the type's alignment
ReadValue(r, ser) ==
  LET width == CASE ser.t = "string" -> 4
                 [] ser.t = "signature" -> 1
                 [] ser.code = "y" -> 1
                 [] ser.code \in {"n", "q"} -> 2
                 [] ser.code \in {"b", "i", "u"} -> 4
                 [] OTHER -> 8
      r1 == ReaderAlign(r, width)
      val == CASE ser.t = "string" -> ReadString(r1)
               [] ser.t = "signature" -> ReadSignature(r1)
               [] OTHER -> ReadUint(r1, width)
  IN << val[1], [bytes |-> val[2], id |-> 0, type |-> << >>] >>

RECURSIVE SeqsUpTo(_, _)
\* the sequences over S of length 1..n
SeqsUpTo(S, n) ==
  IF n = 0 THEN {}
  ELSE { << x >> : x \in S }
       \cup { Append(q, x) : q \in SeqsUpTo(S, n - 1), x \in S }

\* ------------------------------------------------ marshal and read back

\* getValueSerializer(type) for the types of header fields
GetValueSerializer(type) ==
  CASE type \in {"s", "o"} -> StringInstance
    [] type = "g" -> SignatureInstance
    [] OTHER -> PrimitiveInstance(type)

\* a header field of the given id and type, to be written by writeHeader
HeaderField(id, type) == [t |-> "field", code |-> type, ref |-> id]

\* the fields arrays of the composite serializers marshalled:
\* (yus), au, as, at, aay and the inner ay, (y), (gy)
MarshalHeap ==
  << [kind |-> "(", elements |-> << PrimitiveInstance("y"),
                                    PrimitiveInstance("u"), StringInstance >>],
     [kind |-> "a", elements |-> << PrimitiveInstance("u") >>],
     [kind |-> "a", elements |-> << StringInstance >>],
     [kind |-> "a", elements |-> << PrimitiveInstance("t") >>],
     [kind |-> "a", elements |-> << ArrayOver(6) >>],
     [kind |-> "a", elements |-> << PrimitiveInstance("y") >>],
     [kind |-> "(", elements |-> << PrimitiveInstance("y") >>],
     [kind |-> "(", elements |-> << SignatureInstance,
                                    PrimitiveInstance("y") >>] >>

Codecs ==
  { PrimitiveInstance(c) : c \in PrimitiveCodes }
  \cup { StringInstance, SignatureInstance, StructOver(1) }
  \cup { ArrayOver(n) : n \in 2..5 }
  \cup { HeaderField(1, "o"), HeaderField(3, "s"), HeaderField(5, "u"),
         HeaderField(8, "g") }

\* characters of the strings marshalled: "a" and e-acute, by their UTF-8 bytes
Chars == { << 97 >>, << 195, 169 >> }

\* characters of the signatures marshalled: "u" and "i"
SigChars == { << 117 >>, << 105 >> }

\* values of a primitive type; a boolean is 1 or 0, a double is 0 or 1
PrimValues(code) ==
  CASE code = "y" -> {0, 7}
    [] code \in {"b", "d"} -> {0, 1}
    [] code \in {"n", "i", "x"} -> {-3, 7}
    [] code = "u" -> {0, 7, 300}
    [] OTHER -> {7}

RECURSIVE ValuesOf(_, _)
RECURSIVE TuplesOf(_, _)
\* the values that conform to a serializer
ValuesOf(heap, ser) ==
  CASE ser.t = "prim" -> PrimValues(ser.code)
    [] ser.t = "string" -> { << >> } \cup SeqsUpTo(Chars, MaxStrLen)
    [] ser.t = "signature" -> { << >> } \cup SeqsUpTo(SigChars, MaxStrLen)
    [] ser.t = "field" -> ValuesOf(heap, GetValueSerializer(ser.code))
    [] ser.t = "struct" -> TuplesOf(heap, heap[ser.ref].elements)
    [] ser.t = "array" ->
         { << >> } \cup SeqsUpTo(TuplesOf(heap, heap[ser.ref].elements),
                                 MaxArrayLen)

\* the value lists that conform to a list of fields
TuplesOf(heap, fields) ==
  IF fields = << >> THEN { << >> }
  ELSE { << x >> \o rest : x \in ValuesOf(heap, Head(fields)),
                           rest \in TuplesOf(heap, Tail(fields)) }

\* the bytes a reader returns for the scalar v of a serializer when it reads
\* it back right: of a number its little-endian bytes, of a string its UTF-8
\* bytes
BytesOf(ser, v) ==
  CASE ser.t \in {"string", "signature"} -> EncodeInto(v, 4 * Len(v))
    [] ser.code = "y" -> LEBytes(v, 1)
    [] ser.code = "b" -> LE32(IF v # 0 THEN 1 ELSE 0)
    [] ser.code \in {"n", "q"} -> LEBytes(v, 2)
    [] ser.code \in {"i", "u"} -> LEBytes(v, 4)
    [] ser.code = "d" /\ v = 1 -> << 0, 0, 0, 0, 0, 0, 240, 63 >>
    [] ser.code = "d" -> Zeros(8)
    [] OTHER -> LEBytes(v, 8)

\* serializer.serializeInto(writer, value)
Marshal ==
  /\ phase = "init"
  /\ codec.t # "field"
  /\ writer' = SerializeInto(MarshalHeap, codec, writer, value)
  /\ phase' = "written"
  /\ UNCHANGED << codec, value, start, reader, got, notMarshal >>

\* Builder.writeHeader(id, type, value)
MarshalHeaderField ==
  /\ phase = "init"
  /\ codec.t = "field"
  /\ writer' = WriteHeader(MarshalHeap, writer, codec.ref, codec.code,
                           GetValueSerializer(codec.code), value)
  /\ phase' = "written"
  /\ UNCHANGED << codec, value, start, reader, got, notMarshal >>

\* A Reader at the offset the writer started from reads the value back.
ReadBack ==
  /\ phase = "written"
  /\ codec.t \in {"prim", "string", "signature"}
  /\ ~writer.threw
  /\ LET res == ReadValue(NewReader(writer.buf, start), codec)
     IN reader' = res[1] /\ got' = res[2]
  /\ phase' = "read"
  /\ UNCHANGED << codec, value, start, writer, notMarshal >>

\* Reader.readHeaderField() at the offset the writer started from
ReadBackHeaderField ==
  /\ phase = "written"
  /\ codec.t = "field"
  /\ ~writer.threw
  /\ LET res == ReadHeaderField(NewReader(writer.buf, start))
     IN reader' = res[1] /\ got' = res[2]
  /\ phase' = "read"
  /\ UNCHANGED << codec, value, start, writer, notMarshal >>

\* ---------------------------------------------------------------- Builder

\* new ArrayBuffer(256, ...) of the Builder's writer
InitialBufferSize == 256

\* ArrayBuffer.resize(size): the buffer cut, or grown with zero bytes
Resize(w, size) ==
  IF w.threw THEN w
  ELSE [w EXCEPT !.buf = IF size <= Len(@) THEN SubSeq(@, 1, size)
                         ELSE @ \o Zeros(size - Len(@))]

\* Writer.seek(position)
Seek(w, position) == IF w.threw THEN w ELSE [w EXCEPT !.offset = position]

\* Writer.cloneData(): the bytes written, up to the position
CloneData(w) == SubSeq(w.buf, 1, w.offset)

RECURSIVE EstimateBytesLength(_, _, _)
RECURSIVE EstimateFields(_, _, _, _)
RECURSIVE EstimateElements(_, _, _, _)
\* Serializer.estimateBytesLength(value); the length of a string is the count
\* of its characters
EstimateBytesLength(heap, ser, v) ==
  CASE ser.t = "prim" -> Len(BytesOf(ser, 0))
    [] ser.t = "string" -> 5 + Len(v)
    [] ser.t = "signature" -> 2 + Len(v)
    [] ser.t = "passthrough" -> Len(v)
    [] ser.t = "struct" -> EstimateFields(heap, heap[ser.ref].elements, v, 1)
    [] ser.t = "array" -> EstimateElements(heap, heap[ser.ref].elements, v, 1)

\* StructSerializer.estimateBytesLength: the sum over the fields from n on
EstimateFields(heap, fields, values, n) ==
  IF n > Len(fields) THEN 0
  ELSE EstimateBytesLength(heap, fields[n], values[n])
       + EstimateFields(heap, fields, values, n + 1)

\* ArraySerializer.estimateBytesLength: the sum over the values from n on
EstimateElements(heap, fields, values, n) ==
  IF n > Len(values) THEN 0
  ELSE EstimateFields(heap, fields, values[n], 1)
       + EstimateElements(heap, fields, values, n + 1)

\* Builder.writeHeader(id, type, value): the buffer doubled when the estimate
\* exceeds the room left, then the field written
BuilderWriteHeader(w, h) ==
  LET serializer == GetValueSerializer(h.type)
      required == 7 + 4 + EstimateBytesLength(MarshalHeap, serializer, h.value)
      w1 == IF ~w.threw /\ required > Len(w.buf) - w.offset
            THEN Resize(w, 2 * Len(w.buf)) ELSE w
  IN WriteHeader(MarshalHeap, w1, h.id, h.type, serializer, h.value)

RECURSIVE WriteHeaders(_, _)
\* the loop of Builder.build over the headers set, by ascending id
WriteHeaders(w, hs) ==
  IF hs = << >> THEN w
  ELSE WriteHeaders(BuilderWriteHeader(w, Head(hs)), Tail(hs))

\* the characters of a signature as the bytes of their codes
SignatureChars(sig) == [i \in 1..Len(sig) |-> << CodeByte(sig[i]) >>]

NoBody == [present |-> FALSE, ser |-> StructOver(7), values |-> << 0 >>]

NotBuilt ==
  [state |-> "none", bytes |-> << >>, fieldsEnd |-> 0, bodyStart |-> 0,
   fields |-> << >>, entries |-> << >>, threwIn |-> ""]

RECURSIVE EntriesAt(_, _)
\* the headers hs written one after the other from writer w on, each with the
\* position at which writeHeader writes its id: the one its pad(8) leaves
EntriesAt(w, hs) ==
  IF hs = << >> THEN << >>
  ELSE << [id |-> Head(hs).id, type |-> Head(hs).type,
           value |-> Head(hs).value, at |-> Pad(w, 8).offset] >>
       \o EntriesAt(BuilderWriteHeader(w, Head(hs)), Tail(hs))

\* new Builder(kind) and then build() or build(serializer, values): the
\* message returned, where the header fields ended and the body started and
\* the ids writeHeader was called with, in order, or the exception
BuilderBuild_Message(kind, hs, b) ==
  LET w0 == WriteByte(WriteByte(WriteByte(WriteByte(
              NewWriter(InitialBufferSize, 0), 108), kind), 0), 1)
      w1 == WriteHeaders(Seek(w0, 16), hs)
      w2 == IF b.present
            THEN BuilderWriteHeader(w1,
                   [id |-> 8, type |-> "g",
                    value |-> SignatureChars(SignatureOfList(MarshalHeap,
                                MarshalHeap[b.ser.ref].elements, MaxSigLen))])
            ELSE w1
      w3 == Store(w2, 12, LE32(w2.offset - 16))
      w4 == Pad(w3, 8)
      bodyStart == w4.offset
      w5 == IF b.present
            THEN LET bodySize == EstimateBytesLength(MarshalHeap, b.ser, b.values)
                     w6 == SerializeInto(MarshalHeap, b.ser,
                                         Resize(w4, w4.offset + bodySize),
                                         b.values)
                 IN Store(w6, 4, LE32(w6.offset - bodyStart))
            ELSE Store(w4, 4, LE32(0))
  IN IF w5.threw
     THEN [state |-> "threw", bytes |-> << >>, fieldsEnd |-> 0, bodyStart |-> 0,
           fields |-> << >>, entries |-> << >>,
           threwIn |-> IF w2.threw THEN "headers" ELSE "body"]
     ELSE [state |-> "built", bytes |-> CloneData(w5),
           fieldsEnd |-> w2.offset, bodyStart |-> bodyStart,
           fields |-> [i \in 1..Len(hs) |-> hs[i].id]
                        \o (IF b.present THEN << 8 >> ELSE << >>),
           entries |-> EntriesAt(Seek(w0, 16), hs), threwIn |-> ""]

\* the headers a Builder is given with setHeader: any of PATH, MEMBER,
\* REPLY_SERIAL and SIGNATURE
HeaderChoices ==
  << [id |-> 1, type |-> "o", value |-> << << 97 >> >>],
     [id |-> 3, type |-> "s", value |-> << << 97 >>, << 195, 169 >> >>],
     [id |-> 5, type |-> "u", value |-> 7],
     [id |-> 8, type |-> "g", value |-> SignatureChars(<< "u" >>)] >>

RECURSIVE Chosen(_, _)
\* the headers of HeaderChoices whose index from n on is in the set picked
Chosen(picked, n) ==
  IF n > Len(HeaderChoices) THEN << >>
  ELSE (IF n \in picked THEN << HeaderChoices[n] >> ELSE << >>)
       \o Chosen(picked, n + 1)

\* a string of n characters "a"
LongString(n) == [i \in 1..n |-> << 97 >>]

\* the lengths of the PATH and of the MEMBER of a message with long headers:
\* the PATH ends near the end of the initial buffer, before it or past it
PathLens == (MaxPathLen - 12)..MaxPathLen
MemberLens == {0, 100, 300}

\* the serializers a body is built with
BodyCodecs == { StructOver(1), StructOver(7), StructOver(8) }

\* Builder.build
Build ==
  /\ message.state = "none"
  /\ message' = BuilderBuild_Message(1, headers, bodyArgs)
  /\ UNCHANGED << headers, bodyArgs, notBuild >>

\* ---------------------------------------------------------- parseAddress

\* A string is the sequence of its pieces: each of the delimiters ":", "=" and
\* "," is a piece, and so is each word between them.  Indices count pieces
\* from 0, as the code counts characters.

\* value.indexOf(token, offset), -1 when there is none
IndexOf(str, token, offset) ==
  LET at == { i \in offset..(Len(str) - 1) : str[i + 1] = token }
  IN IF at = {} THEN -1 ELSE CHOOSE i \in at : \A j \in at : i <= j

\* value.slice(from, to) for 0 <= from: empty when to <= from
StrSlice(str, from, to) ==
  LET end == IF to > Len(str) THEN Len(str) ELSE to
  IN IF end <= from THEN << >> ELSE SubSeq(str, from + 1, end)

\* params[name] = val
SetParam(ps, name, val) ==
  [k \in DOMAIN ps \cup {name} |-> IF k = name THEN val ELSE ps[k]]

\* the object {}: no property
NoParams == [k \in {} |-> << >>]

\* params.name, << >> standing for undefined and for the empty string, which
\* the code's tests (!params.path) do not tell apart
GetParam(ps, word) ==
  IF << word >> \in DOMAIN ps THEN ps[<< word >>] ELSE << >>

\* the addresses parseAddress is called with: a transport, ":" and key=value
\* parts joined by ",", or such a string with its ":" or its "=" left out
Transports == {"unix", "tcp"}
Keys == {"path", "abstract", "guid"}
Values == {"/run/bus", "1234"}
Parts == [key : Keys, val : Values]

RECURSIVE JoinParts(_, _)
JoinParts(parts, equals) ==
  IF parts = << >> THEN << >>
  ELSE LET first == IF equals
                    THEN << parts[1].key, "=", parts[1].val >>
                    ELSE << parts[1].key, parts[1].val >>
       IN IF Len(parts) = 1 THEN first
          ELSE first \o << "," >> \o JoinParts(Tail(parts), equals)

\* how: "whole", "no colon", "no equals"
AddressOf(transport, parts, how) ==
  (IF how = "no colon" THEN << transport >> ELSE << transport, ":" >>)
    \o JoinParts(parts, how # "no equals")

\* parseAddress up to its while loop: the transport indicator is looked for
ParseAddress ==
  /\ addrState = "idle"
  /\ LET index == IndexOf(address, ":", 0)
     IN IF index < 0
        THEN /\ addrState' = "threw"
             /\ UNCHANGED << addrIndex, params >>
        ELSE /\ addrIndex' = index
             /\ params' = NoParams
             /\ addrState' = IF index < Len(address) THEN "loop" ELSE "switch"
  /\ UNCHANGED address
  /\ UNCHANGED notAddr

\* one iteration of the while loop.  An iteration that neither breaks nor
\* throws and leaves index and params as they were is followed by the same
\* iteration for ever: the call cannot end.
AddressLoopStep ==
  /\ addrState = "loop"
  /\ LET equalsAt == IndexOf(address, "=", addrIndex)
         valueIndex == 1 + equalsAt
         paramName == StrSlice(address, addrIndex, valueIndex)
         delimiterIndex == IndexOf(address, ",", addrIndex)
     IN IF equalsAt < 0
        THEN /\ addrState' = "threw"
             /\ UNCHANGED << addrIndex, params >>
        ELSE IF delimiterIndex < 0
        THEN /\ params' =
                  SetParam(params, paramName,
                           StrSlice(address, valueIndex, Len(address)))
             /\ addrState' = "switch"
             /\ UNCHANGED addrIndex
        ELSE LET set == SetParam(params, paramName,
                                 StrSlice(address, valueIndex, delimiterIndex))
             IN /\ params' = set
                /\ addrIndex' = delimiterIndex
                /\ addrState' =
                     IF delimiterIndex = addrIndex /\ set = params THEN "hung"
                     ELSE IF delimiterIndex < Len(address) THEN "loop"
                     ELSE "switch"
  /\ UNCHANGED address
  /\ UNCHANGED notAddr

\* the switch on the transport
AddressSwitch ==
  /\ addrState = "switch"
  /\ IF address[1] = "unix"
     THEN LET set == SetParam(params, << "transport" >>, << address[1] >>)
          IN /\ params' = set
             /\ addrState' =
                  IF GetParam(set, "path") = << >>
                     /\ GetParam(set, "abstract") = << >>
                  THEN "threw" ELSE "returned"
     ELSE /\ addrState' = "threw"
          /\ UNCHANGED params
  /\ UNCHANGED << address, addrIndex >>
  /\ UNCHANGED notAddr

\* ------------------------------------------------- Reader.getReplySerial

\* The header fields a well-formed message may carry: PATH, MEMBER,
\* REPLY_SERIAL, DESTINATION and SIGNATURE, the strings as their bytes.
WireFieldChoices ==
  { [id |-> 1, type |-> "o", bytes |-> << 47, 97 >>],
    [id |-> 3, type |-> "s", bytes |-> << 97, 98, 99, 100, 101, 102, 103 >>],
    [id |-> 5, type |-> "u", bytes |-> LE32(1)],
    [id |-> 5, type |-> "u", bytes |-> LE32(7)],
    [id |-> 6, type |-> "s", bytes |-> << 58, 49 >>],
    [id |-> 8, type |-> "g", bytes |-> << 117 >>] }

\* one header field as the wire format has it: the id, the signature of the
\* type, and the value: a uint32, a string (uint32 length, bytes, NUL) or a
\* signature (one-byte length, bytes, NUL)
WireField(f) ==
  << f.id, 1, CodeByte(f.type), 0 >>
    \o (CASE f.type = "u" -> f.bytes
          [] f.type = "g" -> << Len(f.bytes) >> \o f.bytes \o << 0 >>
          [] OTHER -> LE32(Len(f.bytes)) \o f.bytes \o << 0 >>)

RECURSIVE WireFieldsArray(_, _)
\* the header-fields array: each field from the next multiple of 8 on; so far
\* is what the array holds already
WireFieldsArray(fs, sofar) ==
  IF fs = << >> THEN sofar
  ELSE WireFieldsArray(Tail(fs),
         sofar \o Zeros(align(Len(sofar), 8) - Len(sofar)) \o WireField(Head(fs)))

\* a method return without a body that carries the fields fs
WireMessage(fs) ==
  LET array == WireFieldsArray(fs, << >>)
      raw == << 108, 2, 0, 1 >> \o LE32(0) \o LE32(2) \o LE32(Len(array))
               \o array
  IN raw \o Zeros(align(Len(raw), 8) - Len(raw))

NotLooked == [state |-> "none", value |-> 0]

RECURSIVE ReplySerialFrom(_, _, _)
\* the for loop of getReplySerial with n at the start of an iteration; a
\* DataView read past the end of the buffer is a RangeError
ReplySerialFrom(buf, n, limit) ==
  IF ~(n < limit) THEN [state |-> "returned", value |-> 0]
  ELSE IF n + 4 > Len(buf) THEN [state |-> "threw", value |-> 0]
  ELSE
    LET id == buf[n + 1]
        type == buf[n + 3]
        at == n + 4
    IN CASE type \in {115, 111} ->
              IF at + 4 > Len(buf) THEN [state |-> "threw", value |-> 0]
              ELSE ReplySerialFrom(buf,
                     align(at + 5 + GetUint32LE(buf, at), 8), limit)
         [] type = 117 ->
              IF id = 5
              THEN IF at + 4 > Len(buf) THEN [state |-> "threw", value |-> 0]
                   ELSE [state |-> "returned", value |-> GetUint32LE(buf, at)]
              ELSE ReplySerialFrom(buf, align(at + 4, 8), limit)
         [] type = 103 ->
              IF at + 1 > Len(buf) THEN [state |-> "threw", value |-> 0]
              ELSE ReplySerialFrom(buf, align(at + 2 + buf[at + 1], 8), limit)
         [] OTHER -> [state |-> "threw", value |-> 0]

\* Reader.getReplySerial() on a Reader over the message buf
GetReplySerial(buf) == ReplySerialFrom(buf, 16, GetUint32LE(buf, 12))

\* new Reader(view of the message).getReplySerial()
LookUp ==
  /\ replySerial = NotLooked
  /\ replySerial' = GetReplySerial(WireMessage(wireFields))
  /\ UNCHANGED wireFields
  /\ UNCHANGED notLookup

\* -------------------------------------------------------- specifications

\* a new Connection, and the peer about to send the messages ms
ConnWith(ms) ==
  /\ nextCallID = 1
  /\ responseHandlers = EmptyMap
  /\ receivedParts = << >>
  /\ receiveDue = 0
  /\ pc = "idle"
  /\ data = NoData
  /\ viewAt = 0
  /\ calls = << >>
  /\ sent = << >>
  /\ msgs = ms
  /\ stream = StreamOf(ms)
  /\ fed = 0
  /\ chunks = 0
  /\ events = << >>
  /\ stashAt = 0
  /\ threw = FALSE
  /\ closed = FALSE
  /\ expired = {}

ConnInit == \E ms \in SeqsUpTo(PeerMessages, MaxMsgs) : ConnWith(ms)

\* no connection: the state of the connection variables while another part of
\* the library is exercised
ConnIdle == ConnWith(<< >>)

SigIdle ==
  /\ signature = << >>
  /\ parsed = NotParsed

MarshalIdle ==
  /\ codec = StringInstance
  /\ value = << >>
  /\ start = 0
  /\ writer = NewWriter(0, 0)
  /\ reader = NewReader(<< >>, 0)
  /\ got = NothingRead
  /\ phase = "idle"

BuildIdle ==
  /\ headers = << >>
  /\ bodyArgs = NoBody
  /\ message = [NotBuilt EXCEPT !.state = "idle"]

\* the connection was opened, its handshake is not looked at
OpenIdle ==
  /\ opening = "resolved"
  /\ uid = 1000
  /\ written = << >>
  /\ replies = << >>

LookupIdle ==
  /\ wireFields = << >>
  /\ replySerial = NotLooked

AddrIdle ==
  /\ address = << >>
  /\ addrIndex = 0
  /\ params = NoParams
  /\ addrState = "idle"

\* ---- the connection
Init ==
  /\ ConnInit /\ SigIdle /\ MarshalIdle /\ BuildIdle /\ OpenIdle
  /\ AddrIdle /\ LookupIdle

Next ==
  \/ SendAndReceive(CallPayload)
  \/ \E n \in ChunkLens(Len(stream) - fed) : Deliver(n)
  \/ LoopStep

Spec == Init /\ [][Next]_vars

\* ---- the connection, closed at some point, with callers that have deadlines
LifeNext ==
  \/ SendAndReceive(CallPayload)
  \/ \E n \in ChunkLens(Len(stream) - fed) : Deliver(n)
  \/ LoopStep
  \/ Close
  \/ \E i \in 1..Len(calls) : DeadlinePasses(i)

SpecLife == Init /\ [][LifeNext]_vars

\* ---- the connection, with malformed messages among those the peer sends
MalformedInit ==
  /\ \E ms \in SeqsUpTo(PeerMessages \cup MalformedMessages, MaxMsgs) :
       /\ \E k \in 1..Len(ms) : Malformed(ms[k].bytes)
       /\ ConnWith(ms)
  /\ SigIdle
  /\ MarshalIdle
  /\ BuildIdle
  /\ OpenIdle
  /\ AddrIdle
  /\ LookupIdle

SpecMalformed == MalformedInit /\ [][LifeNext]_vars

\* ---- parseSignature on every signature of up to MaxSigLen characters
SigInit ==
  /\ ConnIdle
  /\ MarshalIdle
  /\ BuildIdle
  /\ OpenIdle
  /\ AddrIdle
  /\ LookupIdle
  /\ signature \in SeqsUpTo(SigAlphabet, MaxSigLen)
  /\ parsed = NotParsed

SigNext == Parse

SpecSig == SigInit /\ [][SigNext]_vars

\* ---- a value marshalled from a starting offset and read back from it
MarshalInit ==
  /\ ConnIdle
  /\ SigIdle
  /\ BuildIdle
  /\ OpenIdle
  /\ AddrIdle
  /\ LookupIdle
  /\ codec \in Codecs
  /\ value \in ValuesOf(MarshalHeap, codec)
  /\ start \in 0..MaxStart
  /\ writer = NewWriter(start + BufferRoom, start)
  /\ reader = NewReader(<< >>, 0)
  /\ got = NothingRead
  /\ phase = "init"

MarshalNext ==
  \/ Marshal
  \/ MarshalHeaderField
  \/ ReadBack
  \/ ReadBackHeaderField

SpecMarshal == MarshalInit /\ [][MarshalNext]_vars

\* ---- a message built with any of the headers, without or with a body
BuildInit ==
  /\ ConnIdle
  /\ SigIdle
  /\ MarshalIdle
  /\ OpenIdle
  /\ AddrIdle
  /\ LookupIdle
  /\ \E picked \in SUBSET (1..Len(HeaderChoices)) : headers = Chosen(picked, 1)
  /\ \/ bodyArgs = NoBody
     \/ \E ser \in BodyCodecs :
          \E values \in ValuesOf(MarshalHeap, ser) :
            bodyArgs = [present |-> TRUE, ser |-> ser, values |-> values]
  /\ message = NotBuilt

BuildNext == Build

SpecBuild == BuildInit /\ [][BuildNext]_vars

\* ---- a message built with a long PATH, without or with a MEMBER
GrowInit ==
  /\ ConnIdle
  /\ SigIdle
  /\ MarshalIdle
  /\ OpenIdle
  /\ AddrIdle
  /\ LookupIdle
  /\ \E n \in PathLens :
       LET path == [id |-> 1, type |-> "o", value |-> LongString(n)]
       IN \/ headers = << path >>
          \/ \E m \in MemberLens :
               headers = << path, [id |-> 3, type |-> "s",
                                   value |-> LongString(m)] >>
  /\ bodyArgs = NoBody
  /\ message = NotBuilt

SpecGrow == GrowInit /\ [][BuildNext]_vars

\* ---- Connection.open, the server's replies and calls on the connection
OpenInit ==
  /\ ConnIdle
  /\ SigIdle
  /\ MarshalIdle
  /\ BuildIdle
  /\ AddrIdle
  /\ LookupIdle
  /\ opening = "connecting"
  /\ uid \in Uids
  /\ written = << >>
  /\ replies = << >>

OpenNext ==
  \/ Connect
  \/ ConnectError
  \/ \E line \in ServerLines : ServerReply(line)
  \/ LoopStep
  \/ Call
  \/ CloseOpened

SpecOpen == OpenInit /\ [][OpenNext]_vars

\* ---- parseAddress on the addresses of up to MaxParams parts
AddrInit ==
  /\ ConnIdle
  /\ SigIdle
  /\ MarshalIdle
  /\ BuildIdle
  /\ OpenIdle
  /\ LookupIdle
  /\ \E transport \in Transports :
       \E parts \in SeqsUpTo(Parts, MaxParams) :
         \E how \in {"whole", "no colon", "no equals"} :
           address = AddressOf(transport, parts, how)
  /\ addrIndex = 0
  /\ params = NoParams
  /\ addrState = "idle"

AddrNext ==
  \/ ParseAddress
  \/ AddressLoopStep
  \/ AddressSwitch

SpecAddr == AddrInit /\ [][AddrNext]_vars

\* ---- getReplySerial on the messages of up to MaxFields header fields
LookupInit ==
  /\ ConnIdle
  /\ SigIdle
  /\ MarshalIdle
  /\ BuildIdle
  /\ OpenIdle
  /\ AddrIdle
  /\ wireFields \in { fs \in SeqsUpTo(WireFieldChoices, MaxFields) :
                        \A i, j \in 1..Len(fs) : fs[i].id = fs[j].id => i = j }
  /\ replySerial = NotLooked

LookupNext == LookUp

SpecLookup == LookupInit /\ [][LookupNext]_vars

\* ====================================================== claims: connection

AllFed == fed = Len(stream)

\* the messages of the stream that start at stream offset o
MsgsAt(o) == { k \in 1..Len(msgs) : StartOf(msgs, k) = o }

EndOf(ms, k) == StartOf(ms, k) + Len(ms[k].bytes)

\* C1: once the whole stream of N messages was fed, in whatever chunks, and
\* onData is no longer running, it has recognised exactly the N messages, in
\* stream order, each with the bytes of the original.
C1_Reassembly ==
  (AllFed /\ pc # "loop") =>
    /\ Len(events) = Len(msgs)
    /\ \A k \in 1..Len(msgs) : events[k].bytes = msgs[k].bytes

\* C2: an iteration that has a complete incoming message in hand delivers it to
\* the pending waiter whose serial is the message's REPLY_SERIAL, removing that
\* entry, and to no waiter when none is pending under that serial.
C2_ReplyCorrelation ==
  \A i \in 1..Len(events) : \A k \in MsgsAt(events[i].at) :
    events[i].have >= EndOf(msgs, k) =>
      IF msgs[k].reply \in events[i].pending
      THEN events[i].key = msgs[k].reply /\ events[i].removed
      ELSE events[i].key = 0

\* the peer answers every call: an injection from the calls to the messages
\* maps each call to a reply that quotes its serial and that starts after the
\* call was made
RepliesFor ==
  { f \in [1..Len(calls) -> 1..Len(msgs)] :
      /\ \A i, j \in 1..Len(calls) : i # j => f[i] # f[j]
      /\ \A i \in 1..Len(calls) :
           /\ msgs[f[i]].reply = calls[i].serial
           /\ StartOf(msgs, f[i]) >= calls[i].sentAt }

\* C3: when the peer has sent one reply per call and all of them were read,
\* every call's promise is resolved, with a reply that quotes the call's serial.
C3_EachCallGetsItsReply ==
  (AllFed /\ pc = "idle" /\ RepliesFor # {}) =>
    \A i \in 1..Len(calls) :
      /\ calls[i].resolved
      /\ \E k \in 1..Len(msgs) :
           /\ msgs[k].reply = calls[i].serial
           /\ calls[i].value = Slice(msgs[k].bytes, 8, Len(msgs[k].bytes))

\* C4: the counter starts at 1 and each send carries a greater serial than the
\* send before it, except at the wrap past 2^31, where it carries 1.
C4_SerialMonotonic ==
  /\ calls = << >> => nextCallID = 1
  /\ \A i \in 1..(Len(calls) - 1) :
       \/ calls[i + 1].serial > calls[i].serial
       \/ calls[i].serial > 2147483646 /\ calls[i + 1].serial = 1

\* C5: the next-serial counter is never 0 and no payload written to the socket
\* carries serial 0 at offset 8.
C5_SerialNeverZero ==
  /\ nextCallID # 0
  /\ \A i \in 1..Len(sent) :
       /\ calls[i].serial # 0
       /\ Slice(sent[i], 8, 12) # << 0, 0, 0, 0 >>

\* two sends were made, the second after the counter was reset
C5_Witness == Len(sent) >= 2 /\ nextCallID = 1

\* C6: a waiter is invoked only on a message that starts where the view starts
\* and whose bytes, all round_up(16 + fields, 8) + body of them, have been read.
C6_NoPartialDelivery ==
  \A i \in 1..Len(events) :
    events[i].key # 0 =>
      \E k \in MsgsAt(events[i].at) : events[i].have >= EndOf(msgs, k)


\* ================================================== claims: parseSignature

\* StringSerializer.instance serves "s" and "o" alike, so a signature read
\* off the serializers tells the two apart no more: "o" counts as "s"
UpToStringKind(sig) == [i \in 1..Len(sig) |-> IF sig[i] = "o" THEN "s" ELSE sig[i]]

\* C7: parseSignature of a well-formed signature over the supported types
\* succeeds, and the signatures of the serializers it returns, concatenated,
\* are the signature parsed.
C7_SignatureRoundTrip ==
  (parsed # NotParsed /\ WellFormed(signature))
    => /\ parsed.ok
       /\ ParsedSignature(parsed) = UpToStringKind(signature)

\* ======================================================= claims: marshalling

\* C8: a value marshalled from an offset and read back from that offset is
\* read back equal, and the reader ends where the writer ended; a header
\* field written by writeHeader is read back by readHeaderField with its id,
\* type and value.
C8_MarshalRoundTrip ==
  phase = "read"
    => /\ ~reader.threw
       /\ reader.offset = writer.offset
       /\ IF codec.t = "field"
          THEN got = [bytes |-> BytesOf(GetValueSerializer(codec.code), value),
                      id |-> codec.ref,
                      type |-> << CodeByte(codec.code) >>]
          ELSE got.bytes = BytesOf(codec, value)

\* C9: every scalar the writer stored, of width w, was stored at an offset
\* that is a multiple of w, whatever the offset the writer started from.
C9_Alignment ==
  \A i \in 1..Len(writer.stored) :
    writer.stored[i].at % writer.stored[i].width = 0

\* an array of 64-bit elements marshalled from an offset that is no multiple
\* of 8: 4-byte and 8-byte scalars were stored
C9_Witness ==
  /\ phase = "written"
  /\ ~writer.threw
  /\ start % 8 # 0
  /\ \E i \in 1..Len(writer.stored) : writer.stored[i].width = 8
  /\ \E i \in 1..Len(writer.stored) : writer.stored[i].width = 4

\* the alignment of a type: of a number its width, 4 of a string and of an
\* array, 1 of a signature, 8 of a struct
AlignmentOf(ser) ==
  CASE ser.t = "prim" -> Len(BytesOf(ser, 0))
    [] ser.t \in {"string", "array"} -> 4
    [] ser.t = "struct" -> 8
    [] OTHER -> 1

\* C10: the length an array serializer writes is the count of the bytes from
\* the first element, at the element alignment past the length slot, to the
\* end; 0 for an empty array.
C10_ArrayLength ==
  (phase = "written" /\ codec.t = "array" /\ ~writer.threw)
    => LET slot == writer.stored[Len(writer.stored)].at
           a == AlignmentOf(MarshalHeap[codec.ref].elements[1])
       IN /\ GetUint32LE(writer.buf, slot) = writer.offset - align(slot + 4, a)
          /\ value = << >> => GetUint32LE(writer.buf, slot) = 0


\* ========================================================== claims: Builder

\* C11: in a message the Builder returns, the length at offset 12 is the count
\* of the bytes of the header fields past offset 16, without the pad after
\* them; the body starts at 16 plus that length rounded up to 8; and the
\* length at offset 4 is the count of the bytes from there to the end.
C11_Framing ==
  message.state = "built" =>
    LET fieldsLength == GetUint32LE(message.bytes, 12)
        bodyLength == GetUint32LE(message.bytes, 4)
    IN /\ fieldsLength = message.fieldsEnd - 16
       /\ message.bodyStart = align(16 + fieldsLength, 8)
       /\ bodyLength = Len(message.bytes) - align(16 + fieldsLength, 8)


\* ================================================ claims: close and timeout

\* the pending-table entries that belong to call i
EntriesOf(i) == { k \in DOMAIN responseHandlers : responseHandlers[k] = i }

\* C12: once close() was called the pending table is empty and every call
\* that had no reply was completed with the error "connection closed".
C12_CloseCompletesWaiters ==
  closed =>
    /\ DOMAIN responseHandlers = {}
    /\ \A i \in 1..Len(calls) :
         calls[i].resolved \/ calls[i].error = "connection closed"

\* C13: a call whose deadline passed has no entry in the pending table, was
\* completed with a timeout error, and a reply that comes later does not
\* resolve it.
C13_Timeout ==
  \A i \in expired :
    /\ EntriesOf(i) = {}
    /\ calls[i].error = "timeout"
    /\ ~calls[i].resolved


\* ================================================= claims: malformed input

\* C14: no malformed message is delivered to a waiter, and once onData has
\* been given all bytes of one the connection is closed and every call without
\* a reply has failed.
C14_MalformedCloses ==
  /\ \A i \in 1..Len(events) : \A k \in MsgsAt(events[i].at) :
       Malformed(msgs[k].bytes) => events[i].key = 0
  /\ (pc # "loop" /\ \E k \in 1..Len(msgs) :
                       Malformed(msgs[k].bytes) /\ fed >= EndOf(msgs, k))
       => /\ closed
          /\ \A i \in 1..Len(calls) : calls[i].resolved \/ calls[i].error # ""


\* ====================================================== claims: handshake

\* the positions in written of the AUTH lines, and of the BEGIN lines
AuthWrites ==
  { i \in 1..Len(written) :
      written[i].write.kind = "text"
      /\ SubSeq(written[i].write.data, 1, 5) = "AUTH " }

BeginWrites ==
  { i \in 1..Len(written) : written[i].write = [kind |-> "text", data |-> "BEGIN\r\n"] }

IsOK(line) == SubSeq(line, 1, 3) = "OK "

\* C15: what is written first to the socket is the zero byte alone; every
\* AUTH line comes after it, and every payload of sendAndReceive, which goes
\* out after all that open wrote.
C15_ZeroByteFirst ==
  /\ written # << >> => written[1].write = ZeroByte
  /\ 1 \notin AuthWrites
  /\ sent # << >> => written # << >>

\* open wrote the zero byte and AUTH lines, and a call was sent
C15_Witness == AuthWrites # {} /\ sent # << >>

\* C16: the n-th AUTH line, n > 1, is written when n - 1 replies have come and
\* the last of them is not an OK; and when the server has rejected every
\* method, open has failed.
C16_AuthOneAtATime ==
  /\ \A i \in AuthWrites :
       LET n == Cardinality({ j \in AuthWrites : j <= i })
       IN n > 1 => /\ written[i].seen >= n - 1
                   /\ ~IsOK(replies[n - 1])
  /\ (pc = "idle" /\ Len(replies) = 2 /\ \A k \in 1..2 : ~IsOK(replies[k]))
       => opening = "rejected"

\* C17: BEGIN is written at most once, and it has been written once the
\* handler of the server's OK is done; no payload of sendAndReceive goes out
\* without it; no text line is written after it.
C17_BeginOnce ==
  /\ Cardinality(BeginWrites) <= 1
  /\ (pc = "idle" /\ \E k \in 1..Len(replies) : IsOK(replies[k]))
       => BeginWrites # {}
  /\ sent # << >> => BeginWrites # {}
  /\ \A i \in BeginWrites : \A j \in (i + 1)..Len(written) :
       written[j].write.kind # "text"

\* C18: the promise of open is resolved only when the server has sent an OK
\* and the Hello call was written after BEGIN and its reply has come.
C18_ReadyAfterHello ==
  opening = "resolved" =>
    /\ \E k \in 1..Len(replies) : IsOK(replies[k])
    /\ \E i \in BeginWrites : \E j \in (i + 1)..Len(written) :
         written[j].write.kind = "binary"
    /\ events # << >>

\* The brackets of a signature, read left to right with the stack of the
\* brackets still open: a closer needs its own opener on top of the stack,
\* and no opener is left at the end.
Opens == {"(", "{"}
Closes == {")", "}"}
OpenerOf(closer) == IF closer = ")" THEN "(" ELSE "{"

RECURSIVE Balanced(_, _, _)
Balanced(sig, i, open) ==
  IF i > Len(sig) THEN open = << >>
  ELSE IF sig[i] \in Opens THEN Balanced(sig, i + 1, Append(open, sig[i]))
  ELSE IF sig[i] \in Closes
       THEN /\ open # << >>
            /\ open[Len(open)] = OpenerOf(sig[i])
            /\ Balanced(sig, i + 1, SubSeq(open, 1, Len(open) - 1))
  ELSE Balanced(sig, i + 1, open)

Unbalanced(sig) == ~Balanced(sig, 1, << >>)

\* C19: parseSignature fails on every signature whose brackets do not
\* balance: a closer without its opener, an opener never closed, a closer of
\* the wrong kind.
C19_RejectsUnbalanced ==
  (parsed # NotParsed /\ Unbalanced(signature)) => ~parsed.ok

\* The index after the one complete type that starts at index i of sig, 0
\* when none does: a basic type or a variant, an array of a complete type, a
\* struct or a dict entry of at least one complete type.
RECURSIVE CompleteEnd(_, _)
RECURSIVE FieldsEnd(_, _, _, _)
CompleteEnd(sig, i) ==
  IF i > Len(sig) THEN 0
  ELSE CASE sig[i] \in BasicCodes \cup {"v"} -> i + 1
         [] sig[i] = "a" -> CompleteEnd(sig, i + 1)
         [] sig[i] = "(" -> FieldsEnd(sig, i + 1, 0, ")")
         [] sig[i] = "{" -> FieldsEnd(sig, i + 1, 0, "}")
         [] OTHER -> 0

FieldsEnd(sig, i, n, closer) ==
  IF i > Len(sig) THEN 0
  ELSE IF sig[i] = closer THEN (IF n >= 1 THEN i + 1 ELSE 0)
  ELSE LET e == CompleteEnd(sig, i)
       IN IF e = 0 THEN 0 ELSE FieldsEnd(sig, e, n + 1, closer)

TypeCodes == BasicCodes \cup {"v", "a"} \cup Opens \cup Closes

HasEmptyComposite(sig) ==
  \E i \in 1..(Len(sig) - 1) :
    \/ sig[i] = "(" /\ sig[i + 1] = ")"
    \/ sig[i] = "{" /\ sig[i + 1] = "}"

HasUnknownCode(sig) == \E i \in 1..Len(sig) : sig[i] \notin TypeCodes

HasUnmatchedArray(sig) ==
  \E i \in 1..Len(sig) : sig[i] = "a" /\ CompleteEnd(sig, i + 1) = 0

\* C20: parseSignature fails on every signature that has an empty "()" or
\* "{}", a character that is no type code, or an "a" with no complete type
\* after it.
C20_RejectsEmptyUnknownUnmatched ==
  (/\ parsed # NotParsed
   /\ \/ HasEmptyComposite(signature)
      \/ HasUnknownCode(signature)
      \/ HasUnmatchedArray(signature))
    => ~parsed.ok

\* an empty struct alone in a signature, refused for being empty
C20_Witness ==
  /\ signature = << "(", ")" >>
  /\ parsed # NotParsed
  /\ parsed.error = "Empty composite type"

\* ================================================== claims: parseAddress

HasKey(parts, key) == \E i \in 1..Len(parts) : parts[i].key = key

DistinctKeys(parts) ==
  \A i, j \in 1..Len(parts) : parts[i].key = parts[j].key => i = j

AddressDone == addrState \in {"returned", "threw", "hung"}

\* C21: for the address unix:k1=v1,...,kn=vn parseAddress returns a record
\* with transport unix and each ki mapped to vi when exactly one of the keys
\* path and abstract is there, and fails with an error otherwise.
C21_ParseAddress ==
  \A parts \in SeqsUpTo(Parts, MaxParams) :
    (address = AddressOf("unix", parts, "whole") /\ AddressDone) =>
      IF HasKey(parts, "path") # HasKey(parts, "abstract")
      THEN /\ addrState = "returned"
           /\ GetParam(params, "transport") = << "unix" >>
           /\ DistinctKeys(parts) =>
                \A i \in 1..Len(parts) :
                  GetParam(params, parts[i].key) = << parts[i].val >>
      ELSE addrState = "threw"

\* ================================================= claims: size estimate

\* C22: the estimate of a value is at least the number of bytes its
\* serializer writes for it, padding included, from any starting offset.
C22_EstimateIsUpperBound ==
  (phase = "written" /\ codec.t # "field" /\ ~writer.threw) =>
    writer.offset - start <= EstimateBytesLength(MarshalHeap, codec, value)

\* C30: pad(a) moves the position up to the next multiple of a, by no byte
\* when it is one already, over zero bytes.  Seen on one number of width a > 1
\* marshalled from the position start: pad(a) is the first thing its write
\* method does, and the number is then stored at the position pad left.
C30_PadRoundsUp ==
  (/\ phase = "written"
   /\ codec.t = "prim"
   /\ ~writer.threw
   /\ Len(BytesOf(codec, value)) > 1) =>
    LET a == Len(BytesOf(codec, value))
        to == writer.stored[1].at
    IN /\ to = align(start, a)
       /\ to - start \in 0..(a - 1)
       /\ start % a = 0 => to = start
       /\ \A i \in (start + 1)..to : writer.buf[i] = 0

\* ========================================= claims: the data handler, again

\* the bytes fed so far end with the last byte of a message of the stream
AtBoundary == \E k \in 1..Len(msgs) : EndOf(msgs, k) = fed

\* C23: whenever the bytes fed so far end on a message boundary and onData
\* has returned, no byte is due and no fragment is retained.
C23_EmptyResidual ==
  (pc = "idle" /\ AtBoundary) =>
    /\ receiveDue = 0
    /\ receivedParts = << >>

\* ====================================================== claims: Builder

\* the header fields of the built message that are SIGNATURE fields
SignatureFields == { i \in 1..Len(message.fields) : message.fields[i] = 8 }

\* C24: a built message has a SIGNATURE header field exactly when it has a
\* body, and then one only, whatever headers were set before build.
C24_SignatureIffBody ==
  message.state = "built" =>
    Cardinality(SignatureFields) = IF bodyArgs.present THEN 1 ELSE 0

\* ============================================== claims: sendAndReceive

C26_BytesDue ==
  pc = "idle" =>
    \A k \in 1..Len(msgs) :
      (StartOf(msgs, k) < fed /\ fed < EndOf(msgs, k)) =>
        receiveDue = EndOf(msgs, k) - fed

\* C27: the serial assigned after a serial c with 1 <= c < 2^31 is greater
\* than c; the counter goes back to 1 only past 2^31.
C27_SerialWrap ==
  \A i \in 1..Len(calls) :
    LET c == calls[i].serial
        after == IF i < Len(calls) THEN calls[i + 1].serial ELSE nextCallID
    IN (1 <= c /\ c <= 2147483647) => (after > c /\ after # 1)

\* C28: an iteration that has in hand a complete message whose REPLY_SERIAL
\* has no waiter invokes no waiter and removes no entry of the table, and the
\* message after it in the stream is looked at in its turn.
C28_DropUnmatched ==
  \A i \in 1..Len(events) : \A k \in MsgsAt(events[i].at) :
    (events[i].have >= EndOf(msgs, k) /\ msgs[k].reply \notin events[i].pending)
      => /\ events[i].call = 0
         /\ ~events[i].removed
         /\ (AllFed /\ pc = "idle" /\ k < Len(msgs) /\ Len(events) < MaxEvents)
              => \E j \in 1..Len(events) : events[j].at = StartOf(msgs, k + 1)

\* ============================================ claims: parseSignature, again

\* C29: for a complete type T the signature aT parses to one codec, an array
\* codec over the codec of T, and no frame but the root is left open.
C29_ArrayFrames ==
  (/\ parsed # NotParsed
   /\ signature # << >>
   /\ signature[1] = "a"
   /\ TypeEnd(signature, 2) = Len(signature) + 1) =>
    /\ parsed.ok
    /\ Len(parsed.heap[parsed.root].elements) = 1
    /\ parsed.heap[parsed.root].elements[1].t = "array"
    /\ SignatureOfList(parsed.heap, parsed.heap[parsed.root].elements,
                       MaxSigLen) = UpToStringKind(signature)

\* ================================================ claims: strings on the wire

\* C31: a string s written at a position p that is a multiple of 4 leaves
\* the uint32 count of the UTF-8 bytes of s at p, those bytes from p + 4 on,
\* one NUL after them, and the position at p + 5 + count.
C31_StringLayout ==
  (phase = "written" /\ codec.t = "string" /\ ~writer.threw /\ start % 4 = 0)
    => LET bytes == BytesOf(codec, value)
           count == Len(bytes)
       IN /\ Slice(writer.buf, start, start + 4) = LE32(count)
          /\ Slice(writer.buf, start + 4, start + 4 + count) = bytes
          /\ writer.buf[start + 4 + count + 1] = 0
          /\ writer.offset = start + 5 + count

\* ================================================ claims: header fields

\* C32: the header fields set are written by ascending id, each from an
\* offset that is a multiple of 8 on: the id byte, the signature of the type
\* (length 1, the type code, NUL), then the value, here the four bytes of a
\* uint32 value.
C32_HeaderEntries ==
  message.state = "built" =>
    /\ \A i \in 1..(Len(message.entries) - 1) :
         message.entries[i].id < message.entries[i + 1].id
    /\ \A i \in 1..Len(message.entries) :
         LET e == message.entries[i]
         IN /\ e.at % 8 = 0
            /\ Slice(message.bytes, e.at, e.at + 4)
                 = << e.id, 1, CodeByte(e.type), 0 >>
            /\ e.type = "u" =>
                 Slice(message.bytes, e.at + 4, e.at + 8) = LE32(e.value)

\* the REPLY_SERIAL fields of the message looked into
ReplySerialFields == { i \in 1..Len(wireFields) : wireFields[i].id = 5 }

\* C33: on a well-formed message getReplySerial returns the value of the
\* field with id 5 wherever in the header-fields array it lies, and 0 only
\* when there is none.
C33_HeaderLookup ==
  replySerial # NotLooked =>
    /\ replySerial.state = "returned"
    /\ \A i \in ReplySerialFields :
         replySerial.value = GetUint32LE(wireFields[i].bytes, 0)
    /\ ReplySerialFields = {} => replySerial.value = 0

\* C34: the buffer is grown as far as each header entry needs, so that build
\* never fails in the writing of a header, and the bytes written before a
\* growth are still in their places in the message built.
C34_GrowthSuffices ==
  /\ message.threwIn # "headers"
  /\ message.state = "built" =>
       /\ Slice(message.bytes, 0, 4) = << 108, 1, 0, 1 >>
       /\ \A i \in 1..Len(message.entries) :
            message.bytes[message.entries[i].at + 1] = message.entries[i].id

\* C35: the serial stamped at offset 8 of a payload written to the socket reads
\* back, as a little-endian uint32, as the serial under which the call's waiter
\* was registered, and every other byte of the payload is as it was given.
C35_SerialLittleEndian ==
  \A i \in 1..Len(sent) :
    /\ GetUint32LE(sent[i], 8) = calls[i].serial
    /\ Slice(sent[i], 0, 8) = Slice(CallPayload, 0, 8)
    /\ Slice(sent[i], 12, Len(sent[i])) = Slice(CallPayload, 12, Len(CallPayload))

\* C36: every iteration of onData's message loop consumes at least one byte of
\* its view, so the loop is never caught repeating an iteration for ever.
C36_OnDataTerminates == pc # "hung"

\* the calls whose promise is not resolved
UnresolvedCalls == { i \in 1..Len(calls) : ~calls[i].resolved }

\* C37: distinct outstanding calls have distinct serials, and the pending
\* table holds one entry for each unresolved call.
C37_NoWaiterOverwritten ==
  /\ \A i, j \in UnresolvedCalls : i # j => calls[i].serial # calls[j].serial
  /\ Cardinality(DOMAIN responseHandlers) = Cardinality(UnresolvedCalls)

\* C38: parseAddress's parameter loop advances the scan index on every
\* iteration, so it is never caught repeating an iteration for ever.
C38_ParseAddressTerminates == addrState # "hung"

\* the builders over whose elements arrays the composite codecs in the
\* elements array of builder k are made
RefsOf(heap, k) ==
  { heap[k].elements[i].ref :
      i \in { n \in 1..Len(heap[k].elements) :
                heap[k].elements[n].t \in {"struct", "array"} } }

RECURSIVE ReachFrom(_, _, _)
ReachFrom(heap, refs, fuel) ==
  IF fuel = 0 THEN refs
  ELSE ReachFrom(heap, refs \cup UNION { RefsOf(heap, k) : k \in refs },
                 fuel - 1)

\* the elements arrays of the codecs found below the codec made over the
\* elements array of builder k
Descendants(heap, k) == ReachFrom(heap, RefsOf(heap, k), Len(heap))

\* C39: the codec tree returned for an accepted signature is acyclic: neither
\* the returned codec nor a codec below it has among its descendants a codec
\* over its own element list.
C39_CodecTreeAcyclic ==
  parsed.ok =>
    \A k \in {parsed.root} \cup Descendants(parsed.heap, parsed.root) :
      k \notin Descendants(parsed.heap, k)

=============================================================================
